---- MODULE Spec2Model ----
(***************************************************************************)
(* Modifier List add-on: the list-reorder controller (move-up operator),   *)
(* the remove-all-modifiers operator, the visibility buttons with the      *)
(* show_on_cage resolver, and the panel and popovers met with a stale      *)
(* active index, modelled over the host's per-object modifier stacks.      *)
(*                                                                         *)
(* Python indices are kept 0-based (At, Find, Slice); a modifier is a      *)
(* record whose name is its identity (names are unique within one stack).  *)
(***************************************************************************)
EXTENDS Integers, Sequences, FiniteSets, TLC

VARIABLES
    modifiers,                  \* ob.modifiers, per object: the ordered stack
    ml_modifier_active_index,   \* ob.ml_modifier_active_index, per object
    context_object,             \* bpy.context.object
    pinned_object,              \* scene.modifier_list.pinned_object, or NoObject
    blender_version,            \* major.minor of the host, times 100
    last,                       \* the last command: its inputs, locals, result
    pre,                        \* history: stacks and indices when it started
    button,                     \* what the last show_on_cage_button call drew
    object_type,                \* ob.type, per object
    visibility,                 \* what modifier_visibility_buttons last drew
    ui                          \* the last panel, popover or poll evaluation

vars == <<modifiers, ml_modifier_active_index, context_object, pinned_object,
          blender_version, last, pre, button, object_type, visibility, ui>>

----------------------------------------------------------------------------
(* Bounds and universes                                                    *)

MaxMods == 3
MaxCageMods == 3

Objects == {"ob1", "ob2"}
NoObject == "None"
NoName == "-"

ModName(i) == <<"m1", "m2", "m3", "m4", "m5">>[i]

\* Host modifier types used by the model: SUBSURF is a constructive
\* modifier, MULTIRES is constructive and requires original data, LATTICE
\* only deforms.
ModTypes == {"SUBSURF", "MULTIRES", "LATTICE"}
RequiresOriginalData == {"MULTIRES"}
OnlyDeform == {"LATTICE"}

SUPPORT_SHOW_ON_CAGE == {"SUBSURF", "LATTICE"}

\* modifier_categories, for the types drawn by the visibility buttons
DONT_SUPPORT_SHOW_IN_EDITMODE == {"COLLISION", "PARTICLE_SYSTEM", "SMOKE", "FLUID"}
SUPPORT_USE_APPLY_ON_SPLINE == {"LATTICE"}

ObjectTypes == {"MESH", "CURVE", "LATTICE"}
AreaTypes == {"PROPERTIES", "VIEW_3D"}

BlenderVersions == {283, 290}

Modifier(n, t, l, sv, se, sc) ==
    [name |-> n, type |-> t, local |-> l,
     show_viewport |-> sv, show_in_editmode |-> se, show_on_cage |-> sc]

----------------------------------------------------------------------------
(* Python and numpy helpers                                                *)

At(s, i) == s[i + 1]

Min(a, b) == IF a < b THEN a ELSE b

\* s[lo:hi] for 0 <= lo, 0 <= hi
Slice(s, lo, hi) == SubSeq(s, lo + 1, Min(hi, Len(s)))

clip(x, lo, hi) == IF x < lo THEN lo ELSE IF x > hi THEN hi ELSE x

\* bpy_prop_collection.find(name): the index of the entry, or -1
Find(mods, name) ==
    IF \E k \in 1..Len(mods) : mods[k].name = name
    THEN (CHOOSE k \in 1..Len(mods) : mods[k].name = name) - 1
    ELSE -1

\* bpy_prop_collection.remove(mod)
Remove(mods, name) == SelectSeq(mods, LAMBDA m : m.name # name)

----------------------------------------------------------------------------
(* utils                                                                   *)

get_ml_active_object ==
    IF pinned_object # NoObject THEN pinned_object ELSE context_object

is_modifier_local(ob, mod) == mod.local

----------------------------------------------------------------------------
(* Host primitives on one object's stack                                   *)

\* The host refuses to move md above prev when prev requires original data
\* and md is not a deform-only modifier.
HostRefusesMoveAbove(prev, md) ==
    md.type \notin OnlyDeform /\ prev.type \in RequiresOriginalData

\* bpy.ops.object.modifier_move_up(modifier=name): swap with the entry above,
\* or leave the stack as it is (cancelled, no exception) when the name is not
\* in the stack, the entry is first, or the host refuses the move.
modifier_move_up(mods, name) ==
    LET i == Find(mods, name) IN
    IF i <= 0 THEN mods
    ELSE IF HostRefusesMoveAbove(At(mods, i - 1), At(mods, i)) THEN mods
    ELSE SubSeq(mods, 1, i - 1) \o <<mods[i + 1], mods[i]>>
             \o SubSeq(mods, i + 2, Len(mods))

\* for _ in range(n): bpy.ops.object.modifier_move_up(override, modifier=name)
RECURSIVE RepeatMoveUp(_, _, _)
RepeatMoveUp(mods, name, n) ==
    IF n <= 0 THEN mods
    ELSE RepeatMoveUp(modifier_move_up(mods, name), name, n - 1)

\* bpy.ops.object.modifier_move_to_index(modifier=name, index=index), for a
\* target above the entry: the host steps the entry up until it is at index
\* or a step is refused.
RECURSIVE modifier_move_to_index(_, _, _)
modifier_move_to_index(mods, name, index) ==
    LET i == Find(mods, name)
        stepped == modifier_move_up(mods, name) IN
    IF i = -1 \/ i <= index \/ stepped = mods THEN mods
    ELSE modifier_move_to_index(stepped, name, index)

----------------------------------------------------------------------------
(* OBJECT_OT_ml_modifier_move_up                                           *)

\* poll without the test of the active index against 0
poll_NoTopCheck ==
    LET ob == get_ml_active_object
        active_mod_index == ml_modifier_active_index[ob]
        mods == modifiers[ob] IN
    IF Len(mods) = 0 THEN "False"
    ELSE IF active_mod_index >= Len(mods) THEN "IndexError"
    ELSE IF is_modifier_local(ob, At(mods, active_mod_index)) THEN "True"
    ELSE "False"

\* poll that ends in True without asking whether the entry is local
poll_NoLocalCheck ==
    LET ob == get_ml_active_object
        active_mod_index == ml_modifier_active_index[ob]
        mods == modifiers[ob] IN
    IF Len(mods) = 0 THEN "False"
    ELSE IF active_mod_index = 0 THEN "False"
    ELSE IF active_mod_index >= Len(mods) THEN "IndexError"
    ELSE "True"

poll ==
    LET ob == get_ml_active_object
        active_mod_index == ml_modifier_active_index[ob]
        mods == modifiers[ob] IN
    IF Len(mods) = 0 THEN "False"
    ELSE IF active_mod_index = 0 THEN "False"
    ELSE IF active_mod_index >= Len(mods) THEN "IndexError"
    ELSE IF is_modifier_local(ob, At(mods, active_mod_index)) THEN "True"
    ELSE "False"

\* execute that takes the repeated-step branch whether or not shift is held
ExecuteModifiers_AlwaysToTop(shift, version) ==
    LET ml_active_ob == get_ml_active_object
        active_mod_index == ml_modifier_active_index[ml_active_ob]
        active_mod_name == At(modifiers[ml_active_ob], active_mod_index).name IN
    [modifiers EXCEPT ![ml_active_ob] =
        RepeatMoveUp(@, active_mod_name, active_mod_index)]

\* The stacks after execute's host calls. The move-to-index call is made
\* without the override, so the host applies it to the context object.
ExecuteModifiers(shift, version) ==
    LET ml_active_ob == get_ml_active_object
        active_mod_index == ml_modifier_active_index[ml_active_ob]
        active_mod_name == At(modifiers[ml_active_ob], active_mod_index).name IN
    IF shift
    THEN IF version >= 290
         THEN [modifiers EXCEPT ![context_object] =
                   modifier_move_to_index(@, active_mod_name, 0)]
         ELSE [modifiers EXCEPT ![ml_active_ob] =
                   RepeatMoveUp(@, active_mod_name, active_mod_index)]
    ELSE [modifiers EXCEPT ![ml_active_ob] =
              modifier_move_up(@, active_mod_name)]

\* the single-step index update of a move in the other direction
NewActiveIndex_Down(shift, active_mod_index) ==
    IF shift THEN 0 ELSE clip(active_mod_index + 1, 0, 999)

NewActiveIndex(shift, active_mod_index) ==
    IF shift THEN 0 ELSE clip(active_mod_index - 1, 0, 999)

ExecuteIndex(shift) ==
    LET ml_active_ob == get_ml_active_object IN
    [ml_modifier_active_index EXCEPT ![ml_active_ob] = NewActiveIndex(shift, @)]

NoCommand ==
    [cmd |-> "none", shift |-> FALSE, obs |-> {}, ml_active_ob |-> NoObject,
     active_mod_index |-> 0, active_mod_name |-> NoName,
     result |-> "NONE", report |-> "", again |-> "no"]

\* history: whether this command repeats the one just before it (the same
\* command with the same inputs), and how that one ended
Again(cmd, shift, obs) ==
    IF last.cmd = cmd /\ last.shift = shift /\ last.obs = obs
    THEN IF last.result = "FINISHED" THEN "after_finished"
         ELSE "after_cancelled"
    ELSE "no"

Snapshot == [modifiers |-> modifiers, index |-> ml_modifier_active_index]

NoButton ==
    [target |-> -1, use_in_list |-> FALSE, returned |-> FALSE,
     row_active |-> FALSE, icon |-> "NONE"]

NoVisibility == [target |-> -1]

NoUI == [what |-> "none"]

\* invoke (shift from the event) then execute, when poll accepts
MoveUp(shift) ==
    /\ poll = "True"
    /\ LET ml_active_ob == get_ml_active_object
           active_mod_index == ml_modifier_active_index[ml_active_ob] IN
       /\ modifiers' = ExecuteModifiers(shift, blender_version)
       /\ ml_modifier_active_index' = ExecuteIndex(shift)
       /\ last' = [NoCommand EXCEPT
                     !.cmd = "move_up", !.shift = shift,
                     !.ml_active_ob = ml_active_ob,
                     !.active_mod_index = active_mod_index,
                     !.active_mod_name =
                         At(modifiers[ml_active_ob], active_mod_index).name,
                     !.result = "FINISHED",
                     !.again = Again("move_up", shift, {})]
    /\ pre' = Snapshot
    /\ UNCHANGED <<context_object, pinned_object, blender_version, button, object_type,
                   visibility, ui>>

\* the command is requested while poll refuses it: neither invoke nor
\* execute runs, and the event's shift is never read
MoveUpRefused ==
    /\ poll = "False"
    /\ last' = [NoCommand EXCEPT
                  !.cmd = "move_up",
                  !.ml_active_ob = get_ml_active_object,
                  !.active_mod_index =
                      ml_modifier_active_index[get_ml_active_object],
                  !.result = "POLL_FAILED",
                  !.again = Again("move_up", FALSE, {})]
    /\ pre' = Snapshot
    /\ UNCHANGED <<modifiers, ml_modifier_active_index, context_object,
                   pinned_object, blender_version, button, object_type,
                   visibility, ui>>

----------------------------------------------------------------------------
(* OBJECT_OT_ml_remove_all_modifiers                                       *)

\* an iterator that keeps a position, as the iterator of a Python list does
IterNext_ByPosition(before, after, cur) ==
    IF cur + 1 < Len(after) THEN cur + 1 ELSE -1

\* The host's collection iterator steps to the following link as it hands
\* out the current one, so the link it holds survives the removal of the
\* entry the loop body was given. The position of that link in the stack
\* after the removal, or -1 when the iteration is over.
IterNext(before, after, cur) ==
    IF cur + 1 < Len(before) THEN Find(after, At(before, cur + 1).name)
    ELSE -1

\* for mod in ob.modifiers: ob.modifiers.remove(mod)
RECURSIVE RemoveLoop(_, _)
RemoveLoop(mods, cur) ==
    IF cur = -1 THEN mods
    ELSE LET after == Remove(mods, At(mods, cur).name) IN
         RemoveLoop(after, IterNext(mods, after, cur))

RemoveAllFrom(mods) == RemoveLoop(mods, IF Len(mods) = 0 THEN -1 ELSE 0)

\* the end of execute without the test of obs_have_mods
RemoveAllReport_NoCheck(obs_have_mods) ==
    [result |-> "FINISHED", report |-> "Removed all modifiers"]

\* the report and the return value, once the loops are over
RemoveAllReport(obs_have_mods) ==
    IF ~obs_have_mods
    THEN [result |-> "CANCELLED", report |-> "No modifiers to remove"]
    ELSE [result |-> "FINISHED", report |-> "Removed all modifiers"]

RemoveAll(obs) ==
    /\ pre' = Snapshot
    /\ UNCHANGED <<ml_modifier_active_index, context_object, pinned_object,
                   blender_version, button, object_type,
                   visibility, ui>>
    /\ IF obs = {}
       THEN /\ UNCHANGED modifiers
            /\ last' = [NoCommand EXCEPT
                          !.cmd = "remove_all", !.obs = obs,
                          !.result = "CANCELLED", !.report = "No selection",
                          !.again = Again("remove_all", FALSE, obs)]
       ELSE LET obs_have_mods == \E ob \in obs : Len(modifiers[ob]) > 0
                out == RemoveAllReport(obs_have_mods) IN
            /\ modifiers' = [ob \in Objects |->
                               IF ob \in obs THEN RemoveAllFrom(modifiers[ob])
                               ELSE modifiers[ob]]
            /\ last' = [NoCommand EXCEPT
                          !.cmd = "remove_all", !.obs = obs,
                          !.result = out.result, !.report = out.report,
                          !.again = Again("remove_all", FALSE, obs)]

----------------------------------------------------------------------------
(* The reorder controller and remove-all, from any valid starting state    *)

RichStack(k) ==
    IF k = 0 THEN {<<>>}
    ELSE {[i \in 1..k |-> Modifier(ModName(i), t[i], l[i], TRUE, TRUE, FALSE)] :
             t \in [1..k -> ModTypes], l \in [1..k -> BOOLEAN]}

\* the lengths of the second object's stack
PlainLens == {0, 2}

PlainStack(k) ==
    IF k = 0 THEN <<>>
    ELSE [i \in 1..k |-> Modifier(ModName(i), "SUBSURF", TRUE, TRUE, TRUE, FALSE)]

ValidIndices(mods) == IF Len(mods) = 0 THEN {0} ELSE 0..(Len(mods) - 1)

Init ==
    /\ \E k1 \in 0..MaxMods, k2 \in PlainLens :
         \E s1 \in RichStack(k1) :
            modifiers = [ob \in Objects |->
                           IF ob = "ob1" THEN s1 ELSE PlainStack(k2)]
    /\ ml_modifier_active_index \in [Objects -> 0..MaxMods]
    /\ \A ob \in Objects :
         ml_modifier_active_index[ob] \in ValidIndices(modifiers[ob])
    /\ context_object \in Objects
    /\ pinned_object \in (Objects \cup {NoObject}) \ {context_object}
    /\ blender_version \in BlenderVersions
    /\ last = NoCommand
    /\ pre = Snapshot
    /\ button = NoButton
    /\ object_type = [ob \in Objects |-> "MESH"]
    /\ visibility = NoVisibility
    /\ ui = NoUI

Next ==
    \/ \E shift \in BOOLEAN : MoveUp(shift)
    \/ MoveUpRefused
    \/ \E obs \in SUBSET Objects : RemoveAll(obs)

Spec == Init /\ [][Next]_vars

----------------------------------------------------------------------------
(* Properties of the reorder controller and of remove-all                  *)

\* the last command was an accepted move-up, whose execute has run
Moved == last.cmd = "move_up" /\ last.result = "FINISHED"

\* the stack of the Modifier List active object before and after it
Before == pre.modifiers[last.ml_active_ob]
After == modifiers[last.ml_active_ob]

WithoutIndex(s, i) == SubSeq(s, 1, i) \o SubSeq(s, i + 2, Len(s))

SwappedUp(before, after, i) ==
    /\ Len(after) = Len(before)
    /\ At(after, i - 1) = At(before, i)
    /\ At(after, i) = At(before, i - 1)
    /\ \A k \in 0..(Len(before) - 1) :
         k \notin {i - 1, i} => At(after, k) = At(before, k)

\* C1, as stated: after every accepted single-step move-up from index i > 0
\* the active entry is at i-1, the entry that was at i-1 is at i, the length
\* is unchanged and every other entry is where it was.
C1_AsStated ==
    (Moved /\ ~last.shift) => SwappedUp(Before, After, last.active_mod_index)

\* C1, amended: after an accepted single-step move-up from index i > 0 the
\* two entries are swapped as stated when the host accepts the move, and the
\* stack is unchanged when the host refuses it (the entry above requires
\* original data and the active entry is not deform-only); no other
\* object's stack changes.
C1_SingleStep ==
    (Moved /\ ~last.shift) =>
        LET i == last.active_mod_index IN
        /\ i > 0 /\ i < Len(Before)
        /\ IF HostRefusesMoveAbove(At(Before, i - 1), At(Before, i))
           THEN After = Before
           ELSE SwappedUp(Before, After, i)
        /\ \A ob \in Objects \ {last.ml_active_ob} :
             modifiers[ob] = pre.modifiers[ob]

C1_Witness ==
    /\ Moved /\ ~last.shift
    /\ last.active_mod_index = 1
    /\ Len(Before) = 3
    /\ After # Before
    /\ At(After, 0).name = last.active_mod_name

\* C2, as stated: after every accepted move-up (single-step or shift) the
\* modifier at the active index of the Modifier List active object is the
\* one that was active before the command.
C2_SelectionTracks ==
    Moved =>
        LET ix == ml_modifier_active_index[last.ml_active_ob] IN
        /\ ix >= 0 /\ ix < Len(After)
        /\ At(After, ix).name = last.active_mod_name

\* C3: a single-step move-up requested with the active index at 0 is refused
\* by poll without an error and changes neither the stacks nor the indices;
\* and execute, were it run there, would leave the stacks as they are and
\* the index at 0.
C3_BoundaryAtTop ==
    /\ (/\ last.cmd = "move_up" /\ ~last.shift
        /\ Len(Before) > 0
        /\ pre.index[last.ml_active_ob] = 0)
       => /\ last.result = "POLL_FAILED"
          /\ modifiers = pre.modifiers
          /\ ml_modifier_active_index = pre.index
    /\ LET ob == get_ml_active_object IN
       (Len(modifiers[ob]) > 0 /\ ml_modifier_active_index[ob] = 0)
       => /\ poll = "False"
          /\ ExecuteModifiers(FALSE, blender_version) = modifiers
          /\ ExecuteIndex(FALSE) = ml_modifier_active_index

C3_Witness ==
    /\ last.cmd = "move_up" /\ ~last.shift
    /\ last.result = "POLL_FAILED"
    /\ Len(Before) >= 2
    /\ pre.index[last.ml_active_ob] = 0
    /\ At(Before, 0).local

\* the active entry of the command's object, when it started, was locked
ActiveWasLocked ==
    /\ pre.index[last.ml_active_ob] < Len(Before)
    /\ ~At(Before, pre.index[last.ml_active_ob]).local

\* C4: move-up is refused, with the stacks and the indices unchanged and no
\* error, whenever the stack is empty or the active entry is not local; it
\* is accepted only when the stack is non-empty, the active index is not 0
\* and the active entry is local.
C4_PollRefuses ==
    last.cmd = "move_up" =>
        /\ last.result \in {"POLL_FAILED", "FINISHED"}
        /\ (Len(Before) = 0 \/ ActiveWasLocked) => last.result = "POLL_FAILED"
        /\ last.result = "POLL_FAILED" =>
             /\ modifiers = pre.modifiers
             /\ ml_modifier_active_index = pre.index
        /\ last.result = "FINISHED" =>
             /\ Len(Before) > 0
             /\ pre.index[last.ml_active_ob] # 0
             /\ pre.index[last.ml_active_ob] < Len(Before)
             /\ At(Before, pre.index[last.ml_active_ob]).local

C4_Witness ==
    /\ last.cmd = "move_up"
    /\ last.result = "POLL_FAILED"
    /\ pre.index[last.ml_active_ob] > 0
    /\ ActiveWasLocked

\* C5, as stated: after every accepted shift move-up from index i > 0 the
\* active entry is at index 0, the active index is 0, the length is
\* unchanged and the other entries keep their relative order.
C5_JumpToTop ==
    (Moved /\ last.shift) =>
        LET i == last.active_mod_index IN
        /\ ml_modifier_active_index[last.ml_active_ob] = 0
        /\ After = <<At(Before, i)>> \o WithoutIndex(Before, i)

\* C6, as stated: wherever move-up is accepted, the move-to-index branch
\* (host 2.90 and later) and the repeated single-step branch (older hosts)
\* of the shift move end in the same stacks (both set the index to 0).
C6_BranchesAgree ==
    poll = "True" => ExecuteModifiers(TRUE, 290) = ExecuteModifiers(TRUE, 283)

\* C7: every object with a non-empty stack has its active index within
\* 0..len-1, after any sequence of move-up and remove-all commands.
C7_ActiveIndexInRange ==
    \A ob \in Objects :
        Len(modifiers[ob]) > 0 =>
            /\ ml_modifier_active_index[ob] >= 0
            /\ ml_modifier_active_index[ob] <= Len(modifiers[ob]) - 1

C7_Witness ==
    /\ Moved /\ ~last.shift
    /\ last.again = "after_finished"
    /\ last.active_mod_index = 1
    /\ Len(After) = 3
    /\ ml_modifier_active_index[last.ml_active_ob] = 0

\* C8: after remove-all with a non-empty selection every selected object
\* has an empty stack, the other objects' stacks are untouched, and the
\* command returns FINISHED with the report "Removed all modifiers" exactly
\* when it removed at least one modifier.
C8_RemoveAllEmpties ==
    (last.cmd = "remove_all" /\ last.obs # {}) =>
        /\ \A ob \in last.obs : Len(modifiers[ob]) = 0
        /\ \A ob \in Objects \ last.obs : modifiers[ob] = pre.modifiers[ob]
        /\ (last.result = "FINISHED" /\ last.report = "Removed all modifiers")
           <=> (\E ob \in Objects :
                   Len(modifiers[ob]) < Len(pre.modifiers[ob]))
        /\ last.result \in {"FINISHED", "CANCELLED"}

C8_Witness ==
    /\ last.cmd = "remove_all" /\ last.obs = Objects
    /\ last.result = "FINISHED"
    /\ Len(pre.modifiers["ob1"]) = 3
    /\ Len(pre.modifiers["ob2"]) = 2
    /\ \A ob \in Objects : modifiers[ob] = <<>>

\* C9, as stated: a remove-all that directly follows a remove-all with the
\* same selection changes nothing, reports "No modifiers to remove" and
\* returns CANCELLED, for every selection.
C9_AsStated ==
    (last.cmd = "remove_all" /\ last.again # "no") =>
        /\ modifiers = pre.modifiers
        /\ last.result = "CANCELLED"
        /\ last.report = "No modifiers to remove"

\* C9, amended: a remove-all that directly follows a remove-all with the
\* same selection changes nothing and returns CANCELLED; it reports "No
\* modifiers to remove" when the selection is non-empty and "No selection"
\* when the selection is empty.
C9_Idempotent ==
    (last.cmd = "remove_all" /\ last.again # "no") =>
        /\ modifiers = pre.modifiers
        /\ ml_modifier_active_index = pre.index
        /\ last.result = "CANCELLED"
        /\ last.report = IF last.obs = {} THEN "No selection"
                         ELSE "No modifiers to remove"

C9_Witness ==
    /\ last.cmd = "remove_all" /\ last.again = "after_finished"
    /\ last.obs = Objects
    /\ last.result = "CANCELLED"
    /\ last.report = "No modifiers to remove"

----------------------------------------------------------------------------
(* show_on_cage_button                                                     *)

\* the scan before the target, stopping one entry short of it
is_before_OffByOne(mods, mod_index) ==
    LET end_index == clip(mod_index, 1, 99)
        before == Slice(mods, 0, end_index - 1) IN
    \E k \in 1..Len(before) :
        /\ before[k].show_in_editmode
        /\ before[k].type \notin SUPPORT_SHOW_ON_CAGE

\* some modifier of mods[0:end_index] has show_in_editmode on and a type
\* without the show_on_cage setting
is_before_show_in_editmode_on(mods, mod_index) ==
    LET end_index == clip(mod_index, 1, 99)
        before == Slice(mods, 0, end_index) IN
    \E k \in 1..Len(before) :
        /\ before[k].show_in_editmode
        /\ before[k].type \notin SUPPORT_SHOW_ON_CAGE

\* the scan after the target, looking at the next entry only
is_after_OnlyNext(mods, mod_index) ==
    LET after == Slice(mods, mod_index + 1, mod_index + 2) IN
    \E k \in 1..Len(after) :
        /\ after[k].show_viewport
        /\ after[k].show_in_editmode
        /\ after[k].show_on_cage

\* some modifier of mods[mod_index + 1:len(mods)] is visible in the viewport
\* and has show_in_editmode and show_on_cage both on
is_after_show_on_cage_on(mods, mod_index) ==
    LET after == Slice(mods, mod_index + 1, Len(mods)) IN
    \E k \in 1..Len(after) :
        /\ after[k].show_viewport
        /\ after[k].show_in_editmode
        /\ after[k].show_on_cage

\* the button made inactive without a look at the target's show_in_editmode
show_on_cage_button_IgnoresEditmode(mods, modifier, use_in_list) ==
    LET mod_index == Find(mods, modifier.name)
        not_drawn == [returned |-> FALSE, row_active |-> FALSE, icon |-> "NONE"]
    IN
    IF modifier.type \notin SUPPORT_SHOW_ON_CAGE THEN not_drawn
    ELSE IF is_before_show_in_editmode_on(mods, mod_index) THEN not_drawn
    ELSE LET inactive == \/ ~modifier.show_viewport
                         \/ is_after_show_on_cage_on(mods, mod_index)
             muted == inactive /\ use_in_list
             show_on_cage_on == IF muted THEN "SHOW_ON_CAGE_ON_INACTIVE"
                                ELSE "SHOW_ON_CAGE_ON"
             show_on_cage_off == IF muted THEN "SHOW_ON_CAGE_OFF_INACTIVE"
                                 ELSE "SHOW_ON_CAGE_OFF"
         IN [returned |-> TRUE,
             row_active |-> ~(inactive /\ ~use_in_list),
             icon |-> IF modifier.show_on_cage THEN show_on_cage_on
                      ELSE show_on_cage_off]

\* What the call draws: returned is its return value (a show_on_cage button
\* was added), row_active the row's active flag, icon the icon of the button.
show_on_cage_button(mods, modifier, use_in_list) ==
    LET mod_index == Find(mods, modifier.name)
        not_drawn == [returned |-> FALSE, row_active |-> FALSE, icon |-> "NONE"]
    IN
    IF modifier.type \notin SUPPORT_SHOW_ON_CAGE THEN not_drawn
    ELSE IF is_before_show_in_editmode_on(mods, mod_index) THEN not_drawn
    ELSE LET inactive == \/ ~modifier.show_viewport
                         \/ ~modifier.show_in_editmode
                         \/ is_after_show_on_cage_on(mods, mod_index)
             muted == inactive /\ use_in_list
             show_on_cage_on == IF muted THEN "SHOW_ON_CAGE_ON_INACTIVE"
                                ELSE "SHOW_ON_CAGE_ON"
             show_on_cage_off == IF muted THEN "SHOW_ON_CAGE_OFF_INACTIVE"
                                 ELSE "SHOW_ON_CAGE_OFF"
         IN [returned |-> TRUE,
             row_active |-> ~(inactive /\ ~use_in_list),
             icon |-> IF modifier.show_on_cage THEN show_on_cage_on
                      ELSE show_on_cage_off]

Drawn(target, use_in_list, mods) ==
    LET b == show_on_cage_button(mods, At(mods, target), use_in_list) IN
    [target |-> target, use_in_list |-> use_in_list, returned |-> b.returned,
     row_active |-> b.row_active, icon |-> b.icon]

\* What show_in_editmode_button draws: rendered is FALSE when the empty
\* placeholder stands in for the button.
show_in_editmode_button_AlwaysDims(modifier, use_in_list) ==
    IF modifier.type \in DONT_SUPPORT_SHOW_IN_EDITMODE
    THEN [rendered |-> FALSE, row_active |-> TRUE, icon |-> "EMPTY_SPACE"]
    ELSE LET muted == ~modifier.show_viewport /\ use_in_list
             show_in_editmode_on == IF muted THEN "SHOW_IN_EDITMODE_ON_INACTIVE"
                                    ELSE "SHOW_IN_EDITMODE_ON"
             show_in_editmode_off == IF muted THEN "SHOW_IN_EDITMODE_OFF_INACTIVE"
                                     ELSE "SHOW_IN_EDITMODE_OFF"
         IN [rendered |-> TRUE,
             row_active |-> modifier.show_viewport,
             icon |-> IF modifier.show_in_editmode THEN show_in_editmode_on
                      ELSE show_in_editmode_off]

show_in_editmode_button(modifier, use_in_list) ==
    IF modifier.type \in DONT_SUPPORT_SHOW_IN_EDITMODE
    THEN [rendered |-> FALSE, row_active |-> TRUE, icon |-> "EMPTY_SPACE"]
    ELSE LET muted == ~modifier.show_viewport /\ use_in_list
             show_in_editmode_on == IF muted THEN "SHOW_IN_EDITMODE_ON_INACTIVE"
                                    ELSE "SHOW_IN_EDITMODE_ON"
             show_in_editmode_off == IF muted THEN "SHOW_IN_EDITMODE_OFF_INACTIVE"
                                     ELSE "SHOW_IN_EDITMODE_OFF"
         IN [rendered |-> TRUE,
             row_active |-> IF ~use_in_list THEN modifier.show_viewport
                            ELSE TRUE,
             icon |-> IF modifier.show_in_editmode THEN show_in_editmode_on
                      ELSE show_in_editmode_off]

\* "button" when the property button is added, "placeholder" when the empty
\* label is, "none" when the function is not called
use_apply_on_spline_button(modifier) ==
    IF modifier.type \notin SUPPORT_USE_APPLY_ON_SPLINE THEN "placeholder"
    ELSE "button"

curve_properties_context_change_button(use_in_list) ==
    IF use_in_list THEN "placeholder" ELSE "button"

have_phys_context_button(version) ==
    IF version \div 100 = 2 /\ version % 100 < 82
    THEN {"CLOTH", "COLLISION", "FLUID_SIMULATION", "DYNAMIC_PAINT", "SMOKE",
          "SOFT_BODY"}
    ELSE {"CLOTH", "COLLISION", "FLUID", "DYNAMIC_PAINT", "SOFT_BODY"}

\* the return value: a context change button was added
mesh_properties_context_change_button(modifier, use_in_list, area_type, version) ==
    IF area_type # "PROPERTIES" \/ use_in_list THEN FALSE
    ELSE IF modifier.type \in have_phys_context_button(version) THEN TRUE
    ELSE IF modifier.type = "PARTICLE_SYSTEM" THEN TRUE
    ELSE FALSE

\* the non-mesh branch falling through into the mesh one
modifier_visibility_buttons_NoReturn(mods, modifier, use_in_list, ob_type, area_type, version) ==
    LET editmode == show_in_editmode_button(modifier, use_in_list)
        drawn == [toggles |-> modifier.type # "COLLISION",
                  show_in_editmode |-> editmode,
                  use_apply_on_spline |-> "none", context_change |-> "none",
                  show_on_cage |-> "none", placeholder |-> FALSE]
        show_on_cage_added ==
            show_on_cage_button(mods, modifier, use_in_list).returned
        context_change_added ==
            IF ~show_on_cage_added
            THEN mesh_properties_context_change_button(modifier, use_in_list,
                                                       area_type, version)
            ELSE FALSE
        mesh == [show_on_cage |-> IF show_on_cage_added THEN "button" ELSE "none",
                 context_change |-> IF context_change_added THEN "button"
                                    ELSE "none",
                 placeholder |-> ~show_on_cage_added /\ ~context_change_added]
    IN
    IF ob_type = "LATTICE" THEN drawn
    ELSE IF ob_type # "MESH"
    THEN IF modifier.type = "SOFT_BODY"
         THEN [drawn EXCEPT !.context_change =
                              curve_properties_context_change_button(use_in_list),
                            !.show_on_cage = mesh.show_on_cage,
                            !.placeholder = mesh.placeholder]
         ELSE [drawn EXCEPT !.use_apply_on_spline =
                              use_apply_on_spline_button(modifier),
                            !.show_on_cage = mesh.show_on_cage,
                            !.context_change = mesh.context_change,
                            !.placeholder = mesh.placeholder]
    ELSE [drawn EXCEPT !.show_on_cage = mesh.show_on_cage,
                       !.context_change = mesh.context_change,
                       !.placeholder = mesh.placeholder]

\* What modifier_visibility_buttons adds to the row for one modifier of the
\* object of type ob_type: toggles is FALSE when the show_render and
\* show_viewport toggles are replaced by empty labels; placeholder is the
\* empty label that takes the place of the last button of a mesh object.
modifier_visibility_buttons(mods, modifier, use_in_list, ob_type, area_type, version) ==
    LET editmode == show_in_editmode_button(modifier, use_in_list)
        drawn == [toggles |-> modifier.type # "COLLISION",
                  show_in_editmode |-> editmode,
                  use_apply_on_spline |-> "none", context_change |-> "none",
                  show_on_cage |-> "none", placeholder |-> FALSE]
        show_on_cage_added ==
            show_on_cage_button(mods, modifier, use_in_list).returned
        context_change_added ==
            IF ~show_on_cage_added
            THEN mesh_properties_context_change_button(modifier, use_in_list,
                                                       area_type, version)
            ELSE FALSE
    IN
    IF ob_type = "LATTICE" THEN drawn
    ELSE IF ob_type # "MESH"
    THEN IF modifier.type = "SOFT_BODY"
         THEN [drawn EXCEPT !.context_change =
                              curve_properties_context_change_button(use_in_list)]
         ELSE [drawn EXCEPT !.use_apply_on_spline =
                              use_apply_on_spline_button(modifier)]
    ELSE [drawn EXCEPT !.show_on_cage = IF show_on_cage_added THEN "button"
                                        ELSE "none",
                       !.context_change = IF context_change_added THEN "button"
                                          ELSE "none",
                       !.placeholder = ~show_on_cage_added
                                       /\ ~context_change_added]

VisibilityDrawn(target, use_in_list, mods, ob_type, area_type) ==
    [target |-> target, use_in_list |-> use_in_list, ob_type |-> ob_type,
     drawn |-> modifier_visibility_buttons(mods, At(mods, target), use_in_list,
                                           ob_type, area_type, blender_version)]

\* the list, which the panel draws only with the active index in range,
\* draws the visibility buttons of one of its items
DrawListItem(index) ==
    LET ob == get_ml_active_object IN
    /\ index \in 0..(Len(modifiers[ob]) - 1)
    /\ ~(ml_modifier_active_index[ob] > Len(modifiers[ob]) - 1)
    /\ \E area_type \in AreaTypes :
          visibility' = VisibilityDrawn(index, TRUE, modifiers[ob],
                                        object_type[ob], area_type)
    /\ button' = IF object_type[ob] = "MESH"
                 THEN Drawn(index, TRUE, modifiers[ob]) ELSE button
    /\ UNCHANGED <<modifiers, ml_modifier_active_index, context_object,
                   pinned_object, blender_version, last, pre, object_type, ui>>

\* the panel draws the visibility buttons of the active modifier, which it
\* reaches only with the active index in range
DrawActiveModifier ==
    LET ob == get_ml_active_object
        active_mod_index == ml_modifier_active_index[ob] IN
    /\ Len(modifiers[ob]) > 0
    /\ ~(active_mod_index > Len(modifiers[ob]) - 1)
    /\ \E area_type \in AreaTypes :
          visibility' = VisibilityDrawn(active_mod_index, FALSE, modifiers[ob],
                                        object_type[ob], area_type)
    /\ button' = IF object_type[ob] = "MESH"
                 THEN Drawn(active_mod_index, FALSE, modifiers[ob]) ELSE button
    /\ UNCHANGED <<modifiers, ml_modifier_active_index, context_object,
                   pinned_object, blender_version, last, pre, object_type, ui>>

CageTypes == {"SUBSURF", "MULTIRES"}

CageStack(k) ==
    IF k = 0 THEN {<<>>}
    ELSE {[i \in 1..k |-> Modifier(ModName(i), t[i], TRUE,
                                   f[i][1], f[i][2], f[i][3])] :
             t \in [1..k -> CageTypes],
             f \in [1..k -> BOOLEAN \X BOOLEAN \X BOOLEAN]}

InitCage ==
    /\ \E k \in 0..MaxCageMods :
         \E s \in CageStack(k) :
            modifiers = [ob \in Objects |-> IF ob = "ob1" THEN s ELSE <<>>]
    /\ ml_modifier_active_index \in [Objects -> 0..MaxCageMods]
    /\ \A ob \in Objects :
         ml_modifier_active_index[ob] \in ValidIndices(modifiers[ob])
    /\ context_object = "ob1"
    /\ pinned_object = NoObject
    /\ blender_version = 290
    /\ last = NoCommand
    /\ pre = Snapshot
    /\ button = NoButton
    /\ object_type = [ob \in Objects |-> "MESH"]
    /\ visibility = NoVisibility
    /\ ui = NoUI

NextCage ==
    \/ \E index \in 0..(MaxCageMods - 1) : DrawListItem(index)
    \/ DrawActiveModifier

SpecCage == InitCage /\ [][NextCage]_vars

\* the target of the last draw had a cage-capable type and, strictly before
\* it, a modifier with show_in_editmode on and a type outside the
\* cage-support set
EarlierBlocker ==
    LET mods == modifiers[get_ml_active_object] IN
    /\ button.target >= 0
    /\ At(mods, button.target).type \in SUPPORT_SHOW_ON_CAGE
    /\ \E k \in 0..(button.target - 1) :
         /\ At(mods, k).show_in_editmode
         /\ At(mods, k).type \notin SUPPORT_SHOW_ON_CAGE

DrawnMods == modifiers[get_ml_active_object]
Target == At(DrawnMods, button.target)

CageCapableTarget ==
    button.target >= 0 /\ Target.type \in SUPPORT_SHOW_ON_CAGE

\* some modifier strictly after the target has show_viewport,
\* show_in_editmode and show_on_cage all on
LaterOwner ==
    \E k \in (button.target + 1)..(Len(DrawnMods) - 1) :
        /\ At(DrawnMods, k).show_viewport
        /\ At(DrawnMods, k).show_in_editmode
        /\ At(DrawnMods, k).show_on_cage

InactiveIcons == {"SHOW_ON_CAGE_ON_INACTIVE", "SHOW_ON_CAGE_OFF_INACTIVE"}
OnIcons == {"SHOW_ON_CAGE_ON", "SHOW_ON_CAGE_ON_INACTIVE"}

\* the button is rendered active: the row is active in the detail panel,
\* the icon is not the inactive variant in the list
ButtonActive ==
    /\ button.returned
    /\ IF button.use_in_list THEN button.icon \notin InactiveIcons
       ELSE button.row_active

\* C11: for a cage-capable target without an earlier blocker, when some
\* modifier anywhere after the target has show_viewport, show_in_editmode
\* and show_on_cage all on, the button is rendered but inactive: the row is
\* inactive in the detail panel, the icon is the inactive variant in the
\* list.
C11_LaterOwner ==
    (CageCapableTarget /\ ~EarlierBlocker /\ LaterOwner) =>
        /\ button.returned
        /\ button.icon # "NONE"
        /\ IF button.use_in_list THEN button.icon \in InactiveIcons
           ELSE ~button.row_active

C11_Witness ==
    /\ CageCapableTarget /\ ~EarlierBlocker /\ LaterOwner
    /\ button.target = 0
    /\ ~button.use_in_list
    /\ Len(DrawnMods) = 3
    /\ ~At(DrawnMods, 1).show_on_cage
    /\ Target.show_viewport /\ Target.show_in_editmode
    /\ button.returned /\ ~button.row_active

\* whenever the button is rendered its on/off icon is the target's own
\* show_on_cage, and it is rendered active exactly when the target's
\* show_viewport and show_in_editmode are both on and no later modifier
\* owns the cage
RenderedReflectsOwn ==
    button.returned =>
        /\ (button.icon \in OnIcons) <=> Target.show_on_cage
        /\ ButtonActive <=>
             (Target.show_viewport /\ Target.show_in_editmode /\ ~LaterOwner)

\* C16, as stated: when neither scan matches, the button of a cage-capable
\* modifier is rendered active and reflects the modifier's own show_on_cage;
\* and whenever it is rendered, its icon is the own show_on_cage and it is
\* active exactly when the own show_viewport and show_in_editmode are on and
\* no later modifier owns the cage.
C16_AsStated ==
    /\ (CageCapableTarget /\ ~EarlierBlocker /\ ~LaterOwner) =>
         /\ ButtonActive
         /\ (button.icon \in OnIcons) <=> Target.show_on_cage
    /\ RenderedReflectsOwn

\* C16, amended: when neither scan matches, the button of a cage-capable
\* modifier is rendered and reflects the modifier's own show_on_cage; and
\* whenever it is rendered, its icon is the own show_on_cage and it is
\* active exactly when the own show_viewport and show_in_editmode are on and
\* no later modifier owns the cage.
C16_ReflectsOwn ==
    /\ (CageCapableTarget /\ ~EarlierBlocker /\ ~LaterOwner) =>
         /\ button.returned
         /\ (button.icon \in OnIcons) <=> Target.show_on_cage
    /\ RenderedReflectsOwn

C16_Witness ==
    /\ CageCapableTarget /\ ~EarlierBlocker /\ ~LaterOwner
    /\ button.target = 1
    /\ Len(DrawnMods) = 3
    /\ At(DrawnMods, 2).show_on_cage /\ ~At(DrawnMods, 2).show_viewport
    /\ Target.show_viewport /\ ~Target.show_in_editmode /\ Target.show_on_cage
    /\ button.returned /\ ~ButtonActive
    /\ button.icon \in OnIcons

----------------------------------------------------------------------------
(* show_on_cage_button on stacks of a hundred modifiers and more           *)

LongLens == {1, 2, 100, 101, 102}
LongPlaces == {0, 1, 98, 99, 100, 101}

LongName(i) == "m" \o ToString(i)

\* a stack of cage-capable modifiers with, at index blocker (if that is in
\* the stack), one modifier outside the cage-support set that has
\* show_in_editmode on
LongStack(n, blocker) ==
    [i \in 1..n |->
        Modifier(LongName(i),
                 IF i - 1 = blocker THEN "MULTIRES" ELSE "SUBSURF",
                 TRUE, TRUE, TRUE, FALSE)]

InitLong ==
    /\ \E n \in LongLens, blocker \in LongPlaces \cup {-1} :
         modifiers = [ob \in Objects |->
                        IF ob = "ob1" THEN LongStack(n, blocker) ELSE <<>>]
    /\ \E i \in LongPlaces :
         /\ i \in ValidIndices(modifiers["ob1"])
         /\ ml_modifier_active_index = [ob \in Objects |->
                                          IF ob = "ob1" THEN i ELSE 0]
    /\ context_object = "ob1"
    /\ pinned_object = NoObject
    /\ blender_version = 290
    /\ last = NoCommand
    /\ pre = Snapshot
    /\ button = NoButton
    /\ object_type = [ob \in Objects |-> "MESH"]
    /\ visibility = NoVisibility
    /\ ui = NoUI

NextLong ==
    \/ \E index \in LongPlaces : DrawListItem(index)
    \/ DrawActiveModifier

SpecLong == InitLong /\ [][NextLong]_vars

\* C15, as stated: for every stack and every cage-capable target, at index
\* 0 and above index 99 too, the scan before the target forces the button
\* off if and only if some modifier strictly before the target has
\* show_in_editmode on and a type outside the cage-support set.
C15_BeforeScanExact ==
    CageCapableTarget => (~button.returned <=> EarlierBlocker)

----------------------------------------------------------------------------
(* The visibility buttons over modifier types, object types and versions   *)

MaxButtonMods == 2

ButtonTypes == {"SUBSURF", "LATTICE", "SOFT_BODY", "PARTICLE_SYSTEM",
                "COLLISION", "SMOKE", "FLUID"}
ButtonVersions == {281, 290}

ButtonStack(k) ==
    IF k = 0 THEN {<<>>}
    ELSE {[i \in 1..k |-> Modifier(ModName(i), t[i], TRUE,
                                   f[i][1], f[i][2], FALSE)] :
             t \in [1..k -> ButtonTypes],
             f \in [1..k -> BOOLEAN \X BOOLEAN]}

InitButtons ==
    /\ \E k \in 0..MaxButtonMods :
         \E s \in ButtonStack(k) :
            modifiers = [ob \in Objects |-> IF ob = "ob1" THEN s ELSE <<>>]
    /\ ml_modifier_active_index \in [Objects -> 0..MaxButtonMods]
    /\ \A ob \in Objects :
         ml_modifier_active_index[ob] \in ValidIndices(modifiers[ob])
    /\ context_object = "ob1"
    /\ pinned_object = NoObject
    /\ blender_version \in ButtonVersions
    /\ last = NoCommand
    /\ pre = Snapshot
    /\ button = NoButton
    /\ \E t \in ObjectTypes :
         object_type = [ob \in Objects |-> IF ob = "ob1" THEN t ELSE "MESH"]
    /\ visibility = NoVisibility
    /\ ui = NoUI

NextButtons ==
    \/ \E index \in 0..(MaxButtonMods - 1) : DrawListItem(index)
    \/ DrawActiveModifier

SpecButtons == InitButtons /\ [][NextButtons]_vars

VisibilityTarget == At(DrawnMods, visibility.target)

EditmodeInactiveIcons ==
    {"SHOW_IN_EDITMODE_ON_INACTIVE", "SHOW_IN_EDITMODE_OFF_INACTIVE"}
EditmodeOnIcons == {"SHOW_IN_EDITMODE_ON", "SHOW_IN_EDITMODE_ON_INACTIVE"}

\* C13: the show_in_editmode button of the drawn modifier is replaced by the
\* empty placeholder exactly when its type is in
\* DONT_SUPPORT_SHOW_IN_EDITMODE; otherwise, in the detail panel the row is
\* active exactly when show_viewport is on, in the list the row is always
\* active and the icon is the inactive variant exactly when show_viewport is
\* off, and in both modes the icon is the "on" one exactly when
\* show_in_editmode is on.
C13_EditmodeButton ==
    visibility.target # -1 =>
        LET m == VisibilityTarget
            e == visibility.drawn.show_in_editmode IN
        /\ ~e.rendered <=> m.type \in DONT_SUPPORT_SHOW_IN_EDITMODE
        /\ e.rendered =>
              /\ ~visibility.use_in_list =>
                    (e.row_active <=> m.show_viewport)
              /\ visibility.use_in_list =>
                    /\ e.row_active
                    /\ e.icon \in EditmodeInactiveIcons <=> ~m.show_viewport
              /\ e.icon \in EditmodeOnIcons <=> m.show_in_editmode

\* a list item with show_viewport off: its button is drawn, enabled, muted
C13_Witness ==
    /\ visibility.target # -1
    /\ visibility.use_in_list
    /\ ~VisibilityTarget.show_viewport
    /\ VisibilityTarget.show_in_editmode
    /\ visibility.drawn.show_in_editmode.rendered
    /\ visibility.drawn.show_in_editmode.row_active
    /\ visibility.drawn.show_in_editmode.icon = "SHOW_IN_EDITMODE_ON_INACTIVE"

AlternateButtons ==
    {b \in {"use_apply_on_spline", "context_change", "show_on_cage"} :
        visibility.drawn[b] # "none"}

\* C14: of the use_apply_on_spline button, the properties context change
\* button and the show_on_cage button, the draw of one modifier adds at most
\* one (placeholders counted); none for a lattice object, no show_on_cage
\* for a non-mesh object, no use_apply_on_spline for a mesh object.
C14_AlternateButtonsExclusive ==
    visibility.target # -1 =>
        /\ Cardinality(AlternateButtons) <= 1
        /\ visibility.ob_type = "LATTICE" => AlternateButtons = {}
        /\ visibility.ob_type # "MESH" =>
              visibility.drawn.show_on_cage = "none"
        /\ visibility.ob_type = "MESH" =>
              visibility.drawn.use_apply_on_spline = "none"

\* a cage-capable modifier of a curve object: use_apply_on_spline is the
\* one button added
C14_Witness ==
    /\ visibility.target # -1
    /\ visibility.ob_type = "CURVE"
    /\ VisibilityTarget.type \in SUPPORT_SHOW_ON_CAGE
    /\ VisibilityTarget.type \in SUPPORT_USE_APPLY_ON_SPLINE
    /\ AlternateButtons = {"use_apply_on_spline"}
    /\ visibility.drawn.use_apply_on_spline = "button"

----------------------------------------------------------------------------
(* The panel, the popovers and poll after deletions made outside the       *)
(* add-on, which leave ml_modifier_active_index as it was                  *)

MaxStaleMods == 2

StaleVersions == {283, 292}

\* What a draw or a poll did with ob.modifiers: indexed is the set of
\* indices it used on the stack, outcome how it ended.
Seen(what, mods, index, outcome, indexed, drawn) ==
    [what |-> what, len |-> Len(mods), index |-> index, outcome |-> outcome,
     indexed |-> indexed, drawn |-> drawn]

InRange(mods, index) == index \in 0..(Len(mods) - 1)

\* modifiers_ui without its test of the active index
modifiers_ui_NoRangeGuard(mods, active_mod_index) ==
    IF Len(mods) = 0
    THEN Seen("modifiers_ui", mods, active_mod_index, "returned", {},
              {"list", "operators"})
    ELSE IF ~InRange(mods, active_mod_index)
    THEN Seen("modifiers_ui", mods, active_mod_index, "IndexError",
              {active_mod_index}, {})
    ELSE Seen("modifiers_ui", mods, active_mod_index, "returned",
              {active_mod_index}, {"list", "operators", "settings"})

\* modifiers_ui: the out-of-range prompt, or the list and the operator row,
\* followed by the settings of the active modifier when there is one. The
\* list items and the visibility buttons of the active modifier are drawn by
\* DrawListItem and DrawActiveModifier.
modifiers_ui(mods, active_mod_index) ==
    IF Len(mods) > 0 /\ active_mod_index > Len(mods) - 1
    THEN Seen("modifiers_ui", mods, active_mod_index, "returned", {},
              {"out_of_range_label", "reset_index_operator"})
    ELSE IF Len(mods) = 0
    THEN Seen("modifiers_ui", mods, active_mod_index, "returned", {},
              {"list", "operators"})
    ELSE IF ~InRange(mods, active_mod_index)
    THEN Seen("modifiers_ui", mods, active_mod_index, "IndexError",
              {active_mod_index}, {})
    ELSE Seen("modifiers_ui", mods, active_mod_index, "returned",
              {active_mod_index}, {"list", "operators", "settings"})

\* OBJECT_PT_ml_modifier_extras.draw
extras_draw(mods, active_mod_index, version) ==
    IF version >= 292 /\ Len(mods) > 0
    THEN IF ~InRange(mods, active_mod_index)
         THEN Seen("extras", mods, active_mod_index, "IndexError",
                   {active_mod_index}, {})
         ELSE Seen("extras", mods, active_mod_index, "returned",
                   {active_mod_index}, {"copy_to_selected", "sync"})
    ELSE Seen("extras", mods, active_mod_index, "returned", {}, {"sync"})

\* OBJECT_PT_ml_gizmo_object_settings.draw, up to the look-up of the gizmo
gizmo_object_settings_draw(mods, active_mod_index) ==
    IF Len(mods) = 0
    THEN Seen("gizmo_settings", mods, active_mod_index, "returned", {}, {})
    ELSE IF ~InRange(mods, active_mod_index)
    THEN Seen("gizmo_settings", mods, active_mod_index, "IndexError",
              {active_mod_index}, {})
    ELSE Seen("gizmo_settings", mods, active_mod_index, "returned",
              {active_mod_index}, {"gizmo_settings"})

\* a modifier is deleted without the add-on (from the host's own panels,
\* say): the stack shrinks and the active index stays
HostDeleteModifier(ob, name) ==
    /\ Find(modifiers[ob], name) # -1
    /\ modifiers' = [modifiers EXCEPT ![ob] = Remove(@, name)]
    /\ UNCHANGED <<ml_modifier_active_index, context_object, pinned_object,
                   blender_version, last, pre, button, object_type,
                   visibility, ui>>

\* the command is requested while poll fails on mods[active_mod_index]
MoveUpPollFails ==
    LET ob == get_ml_active_object IN
    /\ poll = "IndexError"
    /\ ui' = Seen("poll", modifiers[ob], ml_modifier_active_index[ob],
                  "IndexError", {ml_modifier_active_index[ob]}, {})
    /\ UNCHANGED <<modifiers, ml_modifier_active_index, context_object,
                   pinned_object, blender_version, last, pre, button,
                   object_type, visibility>>

DrawModifiersUI ==
    LET ob == get_ml_active_object IN
    /\ ui' = modifiers_ui(modifiers[ob], ml_modifier_active_index[ob])
    /\ UNCHANGED <<modifiers, ml_modifier_active_index, context_object,
                   pinned_object, blender_version, last, pre, button,
                   object_type, visibility>>

DrawExtrasPopover ==
    LET ob == get_ml_active_object IN
    /\ ui' = extras_draw(modifiers[ob], ml_modifier_active_index[ob],
                         blender_version)
    /\ UNCHANGED <<modifiers, ml_modifier_active_index, context_object,
                   pinned_object, blender_version, last, pre, button,
                   object_type, visibility>>

DrawGizmoSettingsPopover ==
    LET ob == get_ml_active_object IN
    /\ ui' = gizmo_object_settings_draw(modifiers[ob],
                                        ml_modifier_active_index[ob])
    /\ UNCHANGED <<modifiers, ml_modifier_active_index, context_object,
                   pinned_object, blender_version, last, pre, button,
                   object_type, visibility>>

StaleStack(k) ==
    IF k = 0 THEN {<<>>}
    ELSE {[i \in 1..k |-> Modifier(ModName(i), "SUBSURF", l[i], TRUE, TRUE,
                                   FALSE)] : l \in [1..k -> BOOLEAN]}

InitStale ==
    /\ \E k1 \in 0..MaxStaleMods, k2 \in PlainLens :
         \E s1 \in StaleStack(k1) :
            modifiers = [ob \in Objects |->
                           IF ob = "ob1" THEN s1 ELSE PlainStack(k2)]
    /\ ml_modifier_active_index \in [Objects -> 0..MaxStaleMods]
    /\ \A ob \in Objects :
         ml_modifier_active_index[ob] \in ValidIndices(modifiers[ob])
    /\ context_object \in Objects
    /\ pinned_object = NoObject
    /\ blender_version \in StaleVersions
    /\ last = NoCommand
    /\ pre = Snapshot
    /\ button = NoButton
    /\ object_type = [ob \in Objects |-> "MESH"]
    /\ visibility = NoVisibility
    /\ ui = NoUI

NextStale ==
    \/ \E ob \in Objects, i \in 1..MaxStaleMods :
          HostDeleteModifier(ob, ModName(i))
    \/ \E shift \in BOOLEAN : MoveUp(shift)
    \/ MoveUpRefused
    \/ MoveUpPollFails
    \/ \E obs \in SUBSET Objects : RemoveAll(obs)
    \/ DrawModifiersUI
    \/ DrawExtrasPopover
    \/ DrawGizmoSettingsPopover

SpecStale == InitStale /\ [][NextStale]_vars

\* the draw or poll recorded in ui met a stack that was not empty and an
\* active index past its end
SawStaleIndex == ui.len > 0 /\ ui.index > ui.len - 1

\* C12: a draw of modifiers_ui that meets a non-empty stack with the
\* active index past its end adds only the out-of-range label and the
\* reset-index operator and returns; and no draw of modifiers_ui uses an
\* index outside 0..len(modifiers)-1 on ob.modifiers.
C12_StaleIndexPrompt ==
    ui.what = "modifiers_ui" =>
        /\ SawStaleIndex =>
              /\ ui.outcome = "returned"
              /\ ui.drawn = {"out_of_range_label", "reset_index_operator"}
        /\ ui.indexed \subseteq 0..(ui.len - 1)

\* the panel drawn after an outside deletion left the index stale
C12_Witness ==
    /\ ui.what = "modifiers_ui"
    /\ SawStaleIndex
    /\ ui.drawn = {"out_of_range_label", "reset_index_operator"}
    /\ ui.indexed = {}

\* C17, as stated: an evaluation of move-up's poll, a draw of the Modifier
\* Extras popover or a draw of the Gizmo Settings popover never uses an
\* index outside 0..len(modifiers)-1 on ob.modifiers, and poll, met with a
\* stale active index, returns False.
C17_NoStaleDereference ==
    ui.what \in {"poll", "extras", "gizmo_settings"} =>
        /\ ui.indexed \subseteq 0..(ui.len - 1)
        /\ ui.outcome # "IndexError"
====
